---- MODULE Spec2Model ----
(***************************************************************************)
(* Model of the ticketing front end's shopping cart: the TicketCounter     *)
(* component (src/components/ticket-counter.tsx), which keeps the selected *)
(* quantities in localStorage under "ticketCart", and the CheckoutPage     *)
(* (src/pages/checkout.tsx), which rebuilds priced line items from that    *)
(* cart and a batched fetch of the events, and clears the cart on submit.  *)
(*                                                                         *)
(* JavaScript strings are modelled as sequences of one-character strings,  *)
(* JavaScript objects as sequences of [key, val] entries kept in the order *)
(* in which Object.keys / Object.entries / JSON.stringify enumerate them.  *)
(***************************************************************************)
EXTENDS Integers, Sequences, FiniteSets

(***************************************************************************)
(* Bounds and the catalogue the inputs are drawn from.                     *)
(***************************************************************************)
\* Largest stock ceiling / availability (so also the largest quantity).
MaxStock == 2

\* The events a user can select tickets of. 2 and 10 are chosen so that the
\* numeric order (2, 10) differs from the order of the key strings ("10", "2").
EventIds == {2, 10}

\* The ticket types of each event, as the event page offers them.
TicketsOf(e) == IF e = 2 THEN {3, 12} ELSE {5}

TicketIds == UNION {TicketsOf(e) : e \in EventIds}

\* The (eventId, ticketId) identities a TicketCounter can be bound to.
Pairs == {p \in EventIds \X TicketIds : p[2] \in TicketsOf(p[1])}

EventName(e) == IF e = 2 THEN "Event2" ELSE "Event10"

TicketName(t) == CASE t = 3 -> "VIP" [] t = 12 -> "Regular" [] OTHER -> "Early"

(***************************************************************************)
(* JavaScript strings and numbers.                                         *)
(***************************************************************************)
Digits == <<"0", "1", "2", "3", "4", "5", "6", "7", "8", "9">>

DigitChar(d) == Digits[d + 1]

IsDigit(c) == \E i \in 1..10 : Digits[i] = c

DigitValue(c) == (CHOOSE i \in 1..10 : Digits[i] = c) - 1

\* Number.prototype.toString / ToPropertyKey of a non-negative integer.
RECURSIVE ToString(_)
ToString(n) ==
    IF n < 10 THEN <<DigitChar(n)>>
    ELSE ToString(n \div 10) \o <<DigitChar(n % 10)>>

\* The value of the longest prefix of decimal digits of s, read after acc.
RECURSIVE ParseDigits(_, _)
ParseDigits(s, acc) ==
    IF s = <<>> \/ ~IsDigit(Head(s)) THEN acc
    ELSE ParseDigits(Tail(s), acc * 10 + DigitValue(Head(s)))

\* NaN is never equal to a ticket id; it is modelled as a value no id takes.
NaN == 0 - 1

\* Number.parseInt(s) for an unsigned string.
ParseInt(s) ==
    IF s = <<>> \/ ~IsDigit(Head(s)) THEN NaN ELSE ParseDigits(s, 0)

\* Array.prototype.join(",") of a list of strings.
RECURSIVE Join(_)
Join(strs) ==
    IF strs = <<>> THEN <<>>
    ELSE IF Len(strs) = 1 THEN strs[1]
    ELSE strs[1] \o <<",">> \o Join(Tail(strs))

(***************************************************************************)
(* JavaScript objects: own properties in enumeration order.                *)
(***************************************************************************)
\* A canonical numeric string ("0", "7", "12", not "07"): an array index key.
IsArrayIndex(k) ==
    /\ k # <<>>
    /\ \A i \in 1..Len(k) : IsDigit(k[i])
    /\ (Len(k) > 1 => k[1] # "0")

JsHas(obj, k) == \E i \in 1..Len(obj) : obj[i].key = k

JsIndex(obj, k) == CHOOSE i \in 1..Len(obj) : obj[i].key = k

\* obj[k], for a key the object has.
JsGet(obj, k) == obj[JsIndex(obj, k)].val

\* Object.keys(obj)
JsKeys(obj) == [i \in 1..Len(obj) |-> obj[i].key]

\* Mutant: every new key is enumerated last (pure creation order).
JsInsertPosAppend(obj, k) == Len(obj) + 1

\* Where a new key goes in the enumeration order: integer-like keys come
\* first, in ascending numeric order; every other key follows, in the order
\* of its creation.
JsInsertPos(obj, k) ==
    IF ~IsArrayIndex(k) THEN Len(obj) + 1
    ELSE LET later == {i \in 1..Len(obj) :
                         \/ ~IsArrayIndex(obj[i].key)
                         \/ ParseInt(obj[i].key) > ParseInt(k)}
         IN  IF later = {} THEN Len(obj) + 1
             ELSE CHOOSE i \in later : \A j \in later : i <= j

\* obj[k] = v
JsSet(obj, k, v) ==
    IF JsHas(obj, k)
    THEN [obj EXCEPT ![JsIndex(obj, k)].val = v]
    ELSE LET p == JsInsertPos(obj, k)
         IN  SubSeq(obj, 1, p - 1) \o <<[key |-> k, val |-> v]>>
                \o SubSeq(obj, p, Len(obj))

\* delete obj[k]
JsDelete(obj, k) == SelectSeq(obj, LAMBDA en : en.key # k)

(***************************************************************************)
(* localStorage["ticketCart"] and JSON.                                    *)
(***************************************************************************)
\* getItem returns null: the key is absent.
StorageNull == [kind |-> "null", json |-> <<>>]

\* Text that JSON.parse rejects with a SyntaxError.
Malformed == [kind |-> "malformed", json |-> <<>>]

\* The text "{}".
EmptyObjectText == [kind |-> "json", json |-> <<>>]

\* localStorage.getItem("ticketCart") || "{}"
CartText(raw) == IF raw.kind = "null" THEN EmptyObjectText ELSE raw

\* JSON.parse(text) throws.
ParseThrows(text) == text.kind = "malformed"

\* The object with the given properties, created in the order given.
RECURSIVE FromEntries(_, _)
FromEntries(entries, obj) ==
    IF entries = <<>> THEN obj
    ELSE FromEntries(Tail(entries),
                     JsSet(obj, Head(entries).key, Head(entries).val))

\* JSON.parse of the text of a cart: { eventId: { ticketId: quantity } }.
JSONparse(text) ==
    FromEntries([i \in 1..Len(text.json) |->
                    [key |-> text.json[i].key,
                     val |-> FromEntries(text.json[i].val, <<>>)]], <<>>)

\* JSON.stringify(obj): the properties in their enumeration order.
JSONstringify(obj) == [kind |-> "json", json |-> obj]

(***************************************************************************)
(* TicketCounter: the cart load of useEffect, and updateCart.              *)
(***************************************************************************)
\* The quantity useEffect passes to setCount, for a cart text that parses.
LoadCount(raw, eventId, ticketId) ==
    LET cart == JSONparse(CartText(raw))
        eventTickets == IF JsHas(cart, ToString(eventId))
                        THEN JsGet(cart, ToString(eventId)) ELSE <<>>
    IN  IF JsHas(eventTickets, ToString(ticketId))
        THEN JsGet(eventTickets, ToString(ticketId)) ELSE 0

\* Mutant: the event entry is kept when its last ticket is removed.
RemoveTicketKeepEvent(cart, eventId, ticketIdToUpdate) ==
    JsSet(cart, ToString(eventId),
          JsDelete(JsGet(cart, ToString(eventId)),
                   ToString(ticketIdToUpdate)))

\* Mutant: removing a ticket removes the whole entry of its event.
RemoveTicketDropsEvent(cart, eventId, ticketIdToUpdate) ==
    JsDelete(cart, ToString(eventId))

\* The cart after the "quantity === 0" branch of updateCart.
RemoveTicket(cart, eventId, ticketIdToUpdate) ==
    LET ek == ToString(eventId)
        tickets == JsDelete(JsGet(cart, ek), ToString(ticketIdToUpdate))
    IN  IF Len(JsKeys(tickets)) = 0
        THEN JsDelete(cart, ek)
        ELSE JsSet(cart, ek, tickets)

\* Mutant: updateCart removes the ticket for any quantity that is not
\* positive.
updateCartRemovesNonPositive(raw, eventId, ticketIdToUpdate, quantity) ==
    LET ek == ToString(eventId)
        parsed == JSONparse(CartText(raw))
        cart == IF JsHas(parsed, ek) THEN parsed ELSE JsSet(parsed, ek, <<>>)
    IN  JSONstringify(
            IF quantity <= 0
            THEN RemoveTicket(cart, eventId, ticketIdToUpdate)
            ELSE JsSet(cart, ek,
                       JsSet(JsGet(cart, ek), ToString(ticketIdToUpdate),
                             quantity)))

\* Mutant: updateCart replaces the tickets of the event by the one ticket.
updateCartDropsSiblings(raw, eventId, ticketIdToUpdate, quantity) ==
    LET ek == ToString(eventId)
        parsed == JSONparse(CartText(raw))
        cart == IF JsHas(parsed, ek) THEN parsed ELSE JsSet(parsed, ek, <<>>)
    IN  JSONstringify(
            IF quantity = 0
            THEN RemoveTicket(cart, eventId, ticketIdToUpdate)
            ELSE JsSet(cart, ek,
                       JsSet(<<>>, ToString(ticketIdToUpdate), quantity)))

\* Mutant: updateCart starts from an empty object instead of the stored cart.
updateCartFromScratch(raw, eventId, ticketIdToUpdate, quantity) ==
    LET ek == ToString(eventId)
        cart == JsSet(<<>>, ek, <<>>)
    IN  JSONstringify(
            IF quantity = 0
            THEN RemoveTicket(cart, eventId, ticketIdToUpdate)
            ELSE JsSet(cart, ek,
                       JsSet(JsGet(cart, ek), ToString(ticketIdToUpdate),
                             quantity)))

\* The text updateCart hands to localStorage.setItem, for a text that parses.
updateCart(raw, eventId, ticketIdToUpdate, quantity) ==
    LET ek == ToString(eventId)
        parsed == JSONparse(CartText(raw))
        cart == IF JsHas(parsed, ek) THEN parsed ELSE JsSet(parsed, ek, <<>>)
    IN  JSONstringify(
            IF quantity = 0
            THEN RemoveTicket(cart, eventId, ticketIdToUpdate)
            ELSE JsSet(cart, ek,
                       JsSet(JsGet(cart, ek), ToString(ticketIdToUpdate),
                             quantity)))

(***************************************************************************)
(* CheckoutPage: fetchCartData.                                            *)
(***************************************************************************)
NoError == "null"

LoadError == "Failed to load cart items. Please try again."

\* Mutant: the early return for an empty cart is missing.
IsEmptyCartNever(eventIds) == FALSE

\* eventIds.length === 0: the cart is empty, there is nothing to fetch.
IsEmptyCart(eventIds) == Len(eventIds) = 0

\* Mutant: only the first event of the cart is asked for.
EventsRequestFirstOnly(eventIds) ==
    [method |-> "GET", url |-> "http://localhost:5000/events?ids=",
     ids |-> eventIds[1]]

\* The request fetch() issues for the event keys of the cart.
EventsRequest(eventIds) ==
    [method |-> "GET", url |-> "http://localhost:5000/events?ids=",
     ids |-> Join(eventIds)]

\* eventsMap: event.id.toString() -> event, filled by eventsData.forEach.
RECURSIVE BuildEventsMap(_, _)
BuildEventsMap(eventsData, eventsMap) ==
    IF eventsData = <<>> THEN eventsMap
    ELSE BuildEventsMap(Tail(eventsData),
                        JsSet(eventsMap, ToString(Head(eventsData).id),
                              Head(eventsData)))

\* Mutant: a ticket that is not found falls back to the event's first ticket.
FindTicketOrFirst(tickets, tid) ==
    LET hits == {i \in 1..Len(tickets) : tickets[i].id = tid}
    IN  IF hits = {} THEN (IF Len(tickets) > 0 THEN 1 ELSE 0)
        ELSE CHOOSE i \in hits : \A j \in hits : i <= j

\* eventData.tickets.find((t) => t.id === tid): the index of the first
\* match, 0 when find returns undefined.
FindTicket(tickets, tid) ==
    LET hits == {i \in 1..Len(tickets) : tickets[i].id = tid}
    IN  IF hits = {} THEN 0 ELSE CHOOSE i \in hits : \A j \in hits : i <= j

\* Mutant: the quantity is clamped to the fetched availability.
CartItemClamped(eventData, ticket, quantity) ==
    [id |-> ticket.id,
     eventId |-> eventData.id,
     name |-> eventData.name \o " - " \o ticket.name,
     ticketName |-> ticket.name,
     eventName |-> eventData.name,
     price |-> ticket.price,
     quantity |-> IF quantity > ticket.tickets_available
                  THEN ticket.tickets_available ELSE quantity,
     ticketsAvailable |-> ticket.tickets_available]

\* The CartItem pushed for a ticket found in the fetched event.
CartItem(eventData, ticket, quantity) ==
    [id |-> ticket.id,
     eventId |-> eventData.id,
     name |-> eventData.name \o " - " \o ticket.name,
     ticketName |-> ticket.name,
     eventName |-> eventData.name,
     price |-> ticket.price,
     quantity |-> quantity,
     ticketsAvailable |-> ticket.tickets_available]

\* The inner forEach over Object.entries(ticketQuantities).
RECURSIVE ReconcileTickets(_, _, _)
ReconcileTickets(ticketQuantities, eventData, acc) ==
    IF ticketQuantities = <<>> THEN acc
    ELSE LET tid == ParseInt(Head(ticketQuantities).key)
             quantity == Head(ticketQuantities).val
             found == FindTicket(eventData.tickets, tid)
             ticket == eventData.tickets[found]
         IN  ReconcileTickets(Tail(ticketQuantities), eventData,
                 IF found = 0 THEN acc
                 ELSE [items |-> Append(acc.items,
                                        CartItem(eventData, ticket, quantity)),
                       cartTotal |-> acc.cartTotal + ticket.price * quantity])

\* The outer forEach over Object.entries(savedCart).
RECURSIVE ReconcileEvents(_, _, _)
ReconcileEvents(savedCart, eventsMap, acc) ==
    IF savedCart = <<>> THEN acc
    ELSE LET eventId == Head(savedCart).key
         IN  ReconcileEvents(Tail(savedCart), eventsMap,
                 IF ~JsHas(eventsMap, eventId) THEN acc
                 ELSE ReconcileTickets(Head(savedCart).val,
                                       JsGet(eventsMap, eventId), acc))

\* items and cartTotal as fetchCartData hands them to setCartItems, setTotal.
Reconcile(savedCart, eventsData) ==
    ReconcileEvents(savedCart, BuildEventsMap(eventsData, <<>>),
                    [items |-> <<>>, cartTotal |-> 0])

\* Mutant: the first digit after the "+" may be 0.
PhoneValidAnyFirstDigit(phone) ==
    /\ Len(phone) >= 3
    /\ Len(phone) <= 16
    /\ phone[1] = "+"
    /\ \A i \in 2..Len(phone) : IsDigit(phone[i])

\* The phone schema: /^\+[1-9]\d{1,14}$/
PhoneValid(phone) ==
    /\ Len(phone) >= 3
    /\ Len(phone) <= 16
    /\ phone[1] = "+"
    /\ IsDigit(phone[2]) /\ phone[2] # "0"
    /\ \A i \in 3..Len(phone) : IsDigit(phone[i])

(***************************************************************************)
(* What the events API may answer.                                         *)
(***************************************************************************)
\* The elements of a finite set of integers, ascending.
RECURSIVE Ascending(_)
Ascending(S) ==
    IF S = {} THEN <<>>
    ELSE LET m == CHOOSE x \in S : \A y \in S : x <= y
         IN  <<m>> \o Ascending(S \ {m})

\* What the server says of one ticket type: no longer listed, or listed with
\* its current availability (sold out, or the whole stock).
TicketOptions ==
    {[listed |-> FALSE, tickets_available |-> 0]} \cup
    [listed : {TRUE}, tickets_available : {0, MaxStock}]

\* The server's current price of a ticket type, before or after a repricing.
PriceOf(t, repriced) ==
    LET base == CASE t = 3 -> 1000 [] t = 12 -> 500 [] OTHER -> 300
    IN  IF repriced THEN base + 50 ELSE base

\* An Event record of the response (the fields the checkout reads).
EventRecord(e, opt, repriced) ==
    LET ids == Ascending({t \in TicketsOf(e) : opt[t].listed})
    IN  [id |-> e, name |-> EventName(e),
         tickets |-> [i \in 1..Len(ids) |->
                        [id |-> ids[i], name |-> TicketName(ids[i]),
                         price |-> PriceOf(ids[i], repriced),
                         tickets_available |-> opt[ids[i]].tickets_available]]]

\* The body of a successful response: the events of `present`.
Response(present, opt, repriced) ==
    LET ids == Ascending(present)
    IN  [i \in 1..Len(ids) |-> EventRecord(ids[i], opt, repriced)]

\* The event ids a request asks for: its id list split at the commas.
RECURSIVE SplitIds(_, _)
SplitIds(ids, word) ==
    IF ids = <<>> THEN (IF word = <<>> THEN <<>> ELSE <<word>>)
    ELSE IF Head(ids) = "," THEN <<word>> \o SplitIds(Tail(ids), <<>>)
    ELSE SplitIds(Tail(ids), Append(word, Head(ids)))

RequestedIds(request) ==
    LET words == SplitIds(request.ids, <<>>)
    IN  {ParseInt(words[i]) : i \in 1..Len(words)}

(***************************************************************************)
(* State.                                                                  *)
(***************************************************************************)
VARIABLES
    storage,           \* the value of localStorage["ticketCart"]
    page,              \* the route rendered: an event's page, the checkout,
                       \* or nothing after an uncaught error (see EventPage)
    mounted,           \* TicketCounter of each pair: is it mounted
    count,             \* TicketCounter of each pair: its count state
    availableTickets,  \* TicketCounter of each pair: its availableTickets prop
    lastCall,          \* what the last handler or effect did (see Call)
    insertion,         \* history: the order in which the keys now in the
                       \* cart were created ([events, tickets])
    pc,                \* CheckoutPage: where fetchCartData is, or how it ended
    savedCart,         \* CheckoutPage: the cart fetchCartData parsed
    requests,          \* CheckoutPage: the fetches issued since it mounted
    eventsData,        \* CheckoutPage: the body of the response
    cartItems,         \* CheckoutPage state
    total,             \* CheckoutPage state
    isLoading,         \* CheckoutPage state
    error,             \* CheckoutPage state
    phoneInvalid,      \* CheckoutPage: fieldState.invalid of the phone field
    isSubmitting,      \* CheckoutPage: form.formState.isSubmitting
    validity,          \* CheckoutPage: what the resolver found of the
                       \* submission in flight
    phoneText,         \* the schema alone: the string given to it
    verdict,           \* the schema alone: what it answered
    userItem,          \* the value of localStorage["user"]
    accessTokenItem,   \* the value of localStorage["access_token"]
    auth,              \* AuthProvider: the context value it last rendered
    location,          \* the route react-router shows (login flow only)
    loginSubmitting,   \* LoginForm: form.formState.isSubmitting
    loginValidity,     \* LoginForm: what the resolver found of the
                       \* submission being handled
    loginsInFlight,    \* LoginForm: POST /login requests not yet settled
    loginEffects,      \* LoginForm: what the callbacks of the last settled
                       \* request did, in order
    categories,        \* CategoriesPage state
    categoryEvents,    \* CategoriesPage state
    selectedCategory,  \* CategoriesPage state (0 is null)
    isLoadingCategories, \* CategoriesPage state isLoading
    isLoadingEvents,   \* CategoriesPage state
    eventFetches,      \* CategoriesPage: per category, the calls of
                       \* handleCategoryClick still awaiting their fetch
    ticketSheetEventId, \* AdminEventsPage state (0 is null)
    formValues,        \* TicketSheet: the values of its form
    sheetSubmitting,   \* TicketSheet: formState.isSubmitting
    sheetInvalid,      \* TicketSheet: formState.errors has an entry
    creations,         \* POST /tickets requests not yet settled: those
                       \* of the mounted TicketSheet, those of earlier ones
    sheetEffects       \* TicketSheet: what onSubmit did after the last
                       \* settled request, in order

counterVars == <<mounted, count, availableTickets>>

checkoutVars == <<pc, savedCart, requests, eventsData, cartItems, total,
                  isLoading, error, phoneInvalid, isSubmitting, validity>>

schemaVars == <<phoneText, verdict>>

sessionVars == <<userItem, accessTokenItem, auth, location, loginSubmitting,
                 loginValidity, loginsInFlight, loginEffects>>

categoriesVars == <<categories, categoryEvents, selectedCategory,
                    isLoadingCategories, isLoadingEvents, eventFetches>>

sheetVars == <<ticketSheetEventId, formValues, sheetSubmitting, sheetInvalid,
               creations, sheetEffects>>

\* The state of the pages other than the event pages and the checkout.
asideVars == <<sessionVars, categoriesVars, sheetVars>>

\* The state of the event pages and of the checkout.
cartVars == <<storage, page, mounted, count, availableTickets, lastCall,
              insertion, pc, savedCart, requests, eventsData, cartItems,
              total, isLoading, error, phoneInvalid, isSubmitting, validity,
              phoneText, verdict>>

vars == <<storage, page, mounted, count, availableTickets, lastCall,
          insertion, pc, savedCart, requests, eventsData, cartItems, total,
          isLoading, error, phoneInvalid, isSubmitting, validity, phoneText,
          verdict, userItem, accessTokenItem, auth, location,
          loginSubmitting, loginValidity, loginsInFlight, loginEffects,
          categories, categoryEvents, selectedCategory, isLoadingCategories,
          isLoadingEvents, eventFetches, ticketSheetEventId, formValues,
          sheetSubmitting, sheetInvalid, creations, sheetEffects>>

\* The routes: /events/:id, the checkout route, and the blank page React
\* leaves of /events/:id after an uncaught error.
EventPage(e) == [name |-> "event", id |-> e]

CheckoutRoute == [name |-> "checkout", id |-> 0]

Crashed(e) == [name |-> "crashed", id |-> e]

\* A host that renders a TicketCounter for tickets of several events at once.
Listing == [name |-> "listing", id |-> 0]

\* The page shown renders the TicketCounter of pair p.
Hosts(p) == page = EventPage(p[1]) \/ page = Listing

NoPair == <<0, 0>>

\* One invocation of an effect or handler: the setItem calls it made, the
\* values it passed to onCountChange, whether it showed the order alert and
\* whether an exception escaped it.
Call(op, pair, setItem, onCountChange, alert, threw) ==
    [op |-> op, pair |-> pair, setItem |-> setItem,
     onCountChange |-> onCountChange, alert |-> alert, threw |-> threw]

NoCall == Call("none", NoPair, 0, <<>>, FALSE, FALSE)

NoInsertion == [events |-> <<>>, tickets |-> <<>>]

Without(seq, x) == SelectSeq(seq, LAMBDA y : y # x)

\* The creation order of the keys of the cart after updateCart wrote it.
InsertionAfter(ins, raw, eventId, ticketId, quantity) ==
    LET cart == JSONparse(CartText(raw))
        ek == ToString(eventId)
        hadEvent == JsHas(cart, ek)
        hadTicket == hadEvent /\ JsHas(JsGet(cart, ek), ToString(ticketId))
        nowCart == JSONparse(updateCart(raw, eventId, ticketId, quantity))
    IN  IF quantity = 0
        THEN [events |-> IF JsHas(nowCart, ek) THEN ins.events
                         ELSE Without(ins.events, eventId),
              tickets |-> Without(ins.tickets, <<eventId, ticketId>>)]
        ELSE [events |-> IF hadEvent THEN ins.events
                         ELSE Append(ins.events, eventId),
              tickets |-> IF hadTicket THEN ins.tickets
                          ELSE Append(ins.tickets, <<eventId, ticketId>>)]

CheckoutUnmounted ==
    /\ pc = "unmounted"
    /\ savedCart = <<>>
    /\ requests = <<>>
    /\ eventsData = <<>>
    /\ cartItems = <<>>
    /\ total = 0
    /\ isLoading = TRUE
    /\ error = NoError
    /\ phoneInvalid = FALSE
    /\ isSubmitting = FALSE
    /\ validity = "none"

NoCounters ==
    /\ mounted = [p \in Pairs |-> FALSE]
    /\ count = [p \in Pairs |-> 0]
    /\ availableTickets = [p \in Pairs |-> 0]

(***************************************************************************)
(* The session, the categories page and the ticket sheet: their values and *)
(* their state before anything has happened on them.                       *)
(***************************************************************************)
\* What may be pending at once: requests of one kind not yet settled.
MaxPending == 2

\* The values a parsed "user" can be: undefined, null, or a User object,
\* of which only the role is read.
Undefined == [type |-> "undefined", role |-> ""]

JsNull == [type |-> "null", role |-> ""]

Roles == {"user", "admin"}

UserObject(role) == [type |-> "object", role |-> role]

\* !!user
UserTruthy(user) == user.type = "object"

\* What localStorage holds under "user": nothing (getItem gives null), the
\* empty string, other text that JSON.parse rejects, or the JSON text of a
\* value.
NoItem == [kind |-> "null", value |-> Undefined]

EmptyText == [kind |-> "empty", value |-> Undefined]

BadText == [kind |-> "malformed", value |-> Undefined]

TextOf(value) == [kind |-> "json", value |-> value]

UserItems ==
    {NoItem, EmptyText, BadText, TextOf(JsNull)}
        \cup {TextOf(UserObject(r)) : r \in Roles}

\* What localStorage holds under "access_token", and what the context
\* carries as access_token: undefined, null or a string.
NoTokenYet == [kind |-> "undefined", text |-> ""]

NoToken == [kind |-> "null", text |-> ""]

TokenText(text) == [kind |-> "text", text |-> text]

\* The token the server issues to a user of a role.
TokenFor(role) == TokenText(IF role = "user" THEN "token-u" ELSE "token-a")

TokenItems ==
    {NoToken, TokenText(""), TokenText("token-old")}
        \cup {TokenFor(r) : r \in Roles}

\* !!access_token
TokenTruthy(token) == token.kind = "text" /\ token.text # ""

\* The default value of AuthContext.
DefaultAuth ==
    [rendered |-> FALSE, user |-> Undefined, access_token |-> NoTokenYet,
     isLoggedIn |-> FALSE, logged |-> FALSE, threw |-> FALSE]

\* What the code run after a settled request did: nothing has settled.
NoEffects == [response |-> "none", calls |-> <<>>]

\* No login has been tried: the login route, an idle form.
LoginIdle ==
    /\ auth = DefaultAuth
    /\ location = "/login"
    /\ loginSubmitting = FALSE
    /\ loginValidity = "none"
    /\ loginsInFlight = 0
    /\ loginEffects = NoEffects

SessionIdle ==
    /\ userItem = NoItem
    /\ accessTokenItem = NoToken
    /\ LoginIdle

\* The categories the server lists (the last one has no events), and the
\* category of each event.
CategoryIds == {1, 2, 3, 4}

AllEvents ==
    <<[id |-> 2, category_id |-> 1], [id |-> 10, category_id |-> 2],
      [id |-> 11, category_id |-> 3]>>

\* CategoriesPage as its useState calls leave it.
CategoriesIdle ==
    /\ categories = {}
    /\ categoryEvents = <<>>
    /\ selectedCategory = 0
    /\ isLoadingCategories = TRUE
    /\ isLoadingEvents = FALSE
    /\ eventFetches = [c \in CategoryIds |-> 0]

\* defaultValues of the TicketSheet's form.
DefaultValues == [name |-> "", price |-> 0, tickets_available |-> 0]

NoCreations == [own |-> 0, stale |-> 0]

\* AdminEventsPage as its useState leaves it: no TicketSheet is rendered.
SheetIdle ==
    /\ ticketSheetEventId = 0
    /\ formValues = DefaultValues
    /\ sheetSubmitting = FALSE
    /\ sheetInvalid = FALSE
    /\ creations = NoCreations
    /\ sheetEffects = NoEffects

AsideIdle == SessionIdle /\ CategoriesIdle /\ SheetIdle

\* The application as the browser first shows it: an event's page, nothing
\* under "ticketCart".
AppInit ==
    /\ storage = StorageNull
    /\ page \in {EventPage(e) : e \in EventIds}
    /\ NoCounters
    /\ lastCall = NoCall
    /\ insertion = NoInsertion
    /\ CheckoutUnmounted
    /\ AsideIdle

Init ==
    /\ AppInit
    /\ phoneText = <<>>
    /\ verdict = "unchecked"

(***************************************************************************)
(* The event page: TicketCounter.                                          *)
(***************************************************************************)
\* A TicketCounter mounts (or its eventId/ticketId change): useEffect loads
\* its count from the cart. JSON.parse throwing inside the effect is an
\* uncaught error: React unmounts the whole tree.
Mount(p, ceiling) ==
    /\ Hosts(p)
    /\ ~mounted[p]
    /\ IF ParseThrows(CartText(storage))
       THEN /\ page' = Crashed(p[1])
            /\ mounted' = [q \in Pairs |-> FALSE]
            /\ count' = [q \in Pairs |-> 0]
            /\ availableTickets' = [q \in Pairs |-> 0]
            /\ lastCall' = Call("mount", p, 0, <<>>, FALSE, TRUE)
       ELSE /\ page' = page
            /\ mounted' = [mounted EXCEPT ![p] = TRUE]
            /\ count' = [count EXCEPT ![p] = LoadCount(storage, p[1], p[2])]
            /\ availableTickets' = [availableTickets EXCEPT ![p] = ceiling]
            /\ lastCall' = Call("mount", p, 0, <<>>, FALSE, FALSE)
    /\ UNCHANGED <<storage, insertion, checkoutVars, schemaVars, asideVars>>

Unmount(p) ==
    /\ Hosts(p)
    /\ mounted[p]
    /\ mounted' = [mounted EXCEPT ![p] = FALSE]
    /\ count' = [count EXCEPT ![p] = 0]
    /\ availableTickets' = [availableTickets EXCEPT ![p] = 0]
    /\ lastCall' = NoCall
    /\ UNCHANGED <<storage, page, insertion, checkoutVars, schemaVars,
                   asideVars>>

\* The ticketId prop of a mounted TicketCounter changes from p[2] to q[2]:
\* the effect runs again, for the new identity.
Rebind(p, q, ceiling) ==
    /\ Hosts(p)
    /\ mounted[p]
    /\ q[1] = p[1]
    /\ ~mounted[q]
    /\ IF ParseThrows(CartText(storage))
       THEN /\ page' = Crashed(p[1])
            /\ mounted' = [r \in Pairs |-> FALSE]
            /\ count' = [r \in Pairs |-> 0]
            /\ availableTickets' = [r \in Pairs |-> 0]
            /\ lastCall' = Call("rebind", q, 0, <<>>, FALSE, TRUE)
       ELSE /\ page' = page
            /\ mounted' = [mounted EXCEPT ![p] = FALSE, ![q] = TRUE]
            /\ count' = [count EXCEPT ![p] = 0,
                                      ![q] = LoadCount(storage, q[1], q[2])]
            /\ availableTickets' =
                   [availableTickets EXCEPT ![p] = 0, ![q] = ceiling]
            /\ lastCall' = Call("rebind", q, 0, <<>>, FALSE, FALSE)
    /\ UNCHANGED <<storage, insertion, checkoutVars, schemaVars, asideVars>>

\* setCount(newCount); updateCart(ticketId, newCount); onCountChange(newCount)
\* updateCart throwing leaves the count set and skips the notification.
SetCountAndPersist(op, p, newCount) ==
    /\ count' = [count EXCEPT ![p] = newCount]
    /\ IF ParseThrows(CartText(storage))
       THEN /\ lastCall' = Call(op, p, 0, <<>>, FALSE, TRUE)
            /\ UNCHANGED <<storage, insertion>>
       ELSE /\ storage' = updateCart(storage, p[1], p[2], newCount)
            /\ insertion' =
                   InsertionAfter(insertion, storage, p[1], p[2], newCount)
            /\ lastCall' = Call(op, p, 1, <<newCount>>, FALSE, FALSE)

handleIncrease(p) ==
    /\ Hosts(p)
    /\ mounted[p]
    /\ IF count[p] < availableTickets[p]
       THEN SetCountAndPersist("increase", p, count[p] + 1)
       ELSE /\ lastCall' = Call("increase", p, 0, <<>>, FALSE, FALSE)
            /\ UNCHANGED <<count, storage, insertion>>
    /\ UNCHANGED <<page, mounted, availableTickets, checkoutVars,
                   schemaVars, asideVars>>

handleDecrease(p) ==
    /\ Hosts(p)
    /\ mounted[p]
    /\ IF count[p] > 0
       THEN SetCountAndPersist("decrease", p, count[p] - 1)
       ELSE /\ lastCall' = Call("decrease", p, 0, <<>>, FALSE, FALSE)
            /\ UNCHANGED <<count, storage, insertion>>
    /\ UNCHANGED <<page, mounted, availableTickets, checkoutVars,
                   schemaVars, asideVars>>

(***************************************************************************)
(* The checkout page.                                                      *)
(***************************************************************************)
\* fetchCartData from its start to its first await, or to its end when it
\* does not fetch: the page has just mounted with its initial state.
StartFetchCartData ==
    /\ phoneInvalid' = FALSE
    /\ isSubmitting' = FALSE
    /\ validity' = "none"
    /\ eventsData' = <<>>
    /\ IF ParseThrows(CartText(storage))
       THEN \* JSON.parse throws inside the try: catch, then finally
            /\ pc' = "parse_error"
            /\ savedCart' = <<>>
            /\ requests' = <<>>
            /\ cartItems' = <<>>
            /\ total' = 0
            /\ error' = LoadError
            /\ isLoading' = FALSE
       ELSE LET cart == JSONparse(CartText(storage))
                eventIds == JsKeys(cart)
            IN  /\ savedCart' = cart
                /\ cartItems' = <<>>
                /\ total' = 0
                /\ error' = NoError
                /\ IF IsEmptyCart(eventIds)
                   THEN /\ pc' = "empty"
                        /\ requests' = <<>>
                        /\ isLoading' = FALSE
                   ELSE /\ pc' = "fetching"
                        /\ requests' = <<EventsRequest(eventIds)>>
                        /\ isLoading' = TRUE

\* The user goes to the checkout route: the counters unmount, CheckoutPage
\* mounts and its effect calls fetchCartData.
OpenCheckout ==
    /\ page.name # "checkout"
    /\ page' = CheckoutRoute
    /\ mounted' = [p \in Pairs |-> FALSE]
    /\ count' = [p \in Pairs |-> 0]
    /\ availableTickets' = [p \in Pairs |-> 0]
    /\ lastCall' = NoCall
    /\ StartFetchCartData
    /\ UNCHANGED <<storage, insertion, schemaVars, asideVars>>

\* Mutant: the reconciler removes the cart once it has built the items.
FetchResolveClears(present, opt, repriced) ==
    /\ page = CheckoutRoute
    /\ pc = "fetching"
    /\ present \subseteq RequestedIds(requests[1])
    /\ LET body == Response(present, opt, repriced)
           r == Reconcile(savedCart, body)
       IN  /\ eventsData' = body
           /\ cartItems' = r.items
           /\ total' = r.cartTotal
    /\ isLoading' = FALSE
    /\ pc' = "ok"
    /\ storage' = StorageNull
    /\ UNCHANGED <<page, counterVars, lastCall, insertion, savedCart,
                   requests, error, phoneInvalid, isSubmitting, validity,
                   schemaVars, asideVars>>

\* The fetch resolves with response.ok and a body: events among those asked
\* for, each with the tickets it lists now.
FetchResolve(present, opt, repriced) ==
    /\ page = CheckoutRoute
    /\ pc = "fetching"
    /\ present \subseteq RequestedIds(requests[1])
    /\ LET body == Response(present, opt, repriced)
           r == Reconcile(savedCart, body)
       IN  /\ eventsData' = body
           /\ cartItems' = r.items
           /\ total' = r.cartTotal
    /\ isLoading' = FALSE
    /\ pc' = "ok"
    /\ UNCHANGED <<storage, page, counterVars, lastCall, insertion, savedCart,
                   requests, error, phoneInvalid, isSubmitting, validity,
                   schemaVars, asideVars>>

\* Mutant: the catch block does not set the error.
FetchFailedSilently(how) ==
    /\ page = CheckoutRoute
    /\ pc = "fetching"
    /\ pc' = how
    /\ isLoading' = FALSE
    /\ UNCHANGED <<storage, page, counterVars, lastCall, insertion, savedCart,
                   requests, eventsData, cartItems, total, phoneInvalid,
                   isSubmitting, validity, schemaVars, asideVars, error>>

\* Mutant: there is no finally block.
FetchFailedStaysLoading(how) ==
    /\ page = CheckoutRoute
    /\ pc = "fetching"
    /\ pc' = how
    /\ error' = LoadError
    /\ UNCHANGED <<storage, page, counterVars, lastCall, insertion, savedCart,
                   requests, eventsData, cartItems, total, phoneInvalid,
                   isSubmitting, validity, schemaVars, asideVars, isLoading>>

\* catch (err) { setError(...) } finally { setIsLoading(false) }
FetchFailed(how) ==
    /\ page = CheckoutRoute
    /\ pc = "fetching"
    /\ pc' = how
    /\ error' = LoadError
    /\ isLoading' = FALSE
    /\ UNCHANGED <<storage, page, counterVars, lastCall, insertion, savedCart,
                   requests, eventsData, cartItems, total, phoneInvalid,
                   isSubmitting, validity, schemaVars, asideVars>>

\* The response arrives with a non-success status: !response.ok throws.
FetchNotOk == FetchFailed("http_error")

\* fetch() rejects: the network failed.
FetchRejected == FetchFailed("network_error")

\* The order summary and its form are rendered.
SummaryShown ==
    /\ page = CheckoutRoute
    /\ ~isLoading
    /\ error = NoError
    /\ Len(cartItems) # 0

\* Mutant: the form is there and its button enabled whatever the page shows.
onSubmitAnyTime(phone) ==
    /\ page = CheckoutRoute
    /\ isSubmitting' = TRUE
    /\ validity' = IF PhoneValid(phone) THEN "valid" ELSE "invalid"
    /\ UNCHANGED <<storage, page, counterVars, lastCall, insertion, pc,
                   savedCart, requests, eventsData, cartItems, total,
                   isLoading, error, phoneInvalid, schemaVars, asideVars>>

\* The form is submitted (its button is disabled while a submission is in
\* flight): handleSubmit sets isSubmitting and has the resolver validate the
\* phone against the schema.
onSubmit(phone) ==
    /\ SummaryShown
    /\ ~isSubmitting
    /\ isSubmitting' = TRUE
    /\ validity' = IF PhoneValid(phone) THEN "valid" ELSE "invalid"
    /\ UNCHANGED <<storage, page, counterVars, lastCall, insertion, pc,
                   savedCart, requests, eventsData, cartItems, total,
                   isLoading, error, phoneInvalid, schemaVars, asideVars>>

\* Mutant: the callback places the order and leaves the cart in place.
SubmitSettlesKeepsCart ==
    /\ page = CheckoutRoute
    /\ isSubmitting
    /\ isSubmitting' = FALSE
    /\ validity' = "none"
    /\ phoneInvalid' = (validity # "valid")
    /\ lastCall' = Call("submit", NoPair, 0, <<>>, validity = "valid", FALSE)
    /\ UNCHANGED <<storage, insertion, page, counterVars, pc, savedCart,
                   requests, eventsData, cartItems, total, isLoading, error,
                   schemaVars, asideVars>>

\* Mutant: the callback runs whatever the resolver found.
SubmitSettlesUnvalidated ==
    /\ page = CheckoutRoute
    /\ isSubmitting
    /\ isSubmitting' = FALSE
    /\ validity' = "none"
    /\ storage' = StorageNull
    /\ insertion' = NoInsertion
    /\ phoneInvalid' = (validity # "valid")
    /\ lastCall' = Call("submit", NoPair, 0, <<>>, TRUE, FALSE)
    /\ UNCHANGED <<page, counterVars, pc, savedCart, requests, eventsData,
                   cartItems, total, isLoading, error, schemaVars, asideVars>>

\* Mutant: the callback also empties the page's items and total.
SubmitSettlesResets ==
    /\ page = CheckoutRoute
    /\ isSubmitting
    /\ isSubmitting' = FALSE
    /\ validity' = "none"
    /\ IF validity = "valid"
       THEN /\ storage' = StorageNull
            /\ insertion' = NoInsertion
            /\ phoneInvalid' = FALSE
            /\ cartItems' = <<>>
            /\ total' = 0
            /\ lastCall' = Call("submit", NoPair, 0, <<>>, TRUE, FALSE)
       ELSE /\ phoneInvalid' = TRUE
            /\ lastCall' = Call("submit", NoPair, 0, <<>>, FALSE, FALSE)
            /\ UNCHANGED <<storage, insertion, cartItems, total>>
    /\ UNCHANGED <<page, counterVars, pc, savedCart, requests, eventsData,
                   isLoading, error, schemaVars, asideVars>>

\* handleSubmit goes on after the resolver: it calls the callback (the alert,
\* then removeItem) only when the phone is valid, and sets the field's error
\* otherwise; isSubmitting falls.
SubmitSettles ==
    /\ page = CheckoutRoute
    /\ isSubmitting
    /\ isSubmitting' = FALSE
    /\ validity' = "none"
    /\ IF validity = "valid"
       THEN /\ storage' = StorageNull
            /\ insertion' = NoInsertion
            /\ phoneInvalid' = FALSE
            /\ lastCall' = Call("submit", NoPair, 0, <<>>, TRUE, FALSE)
       ELSE /\ phoneInvalid' = TRUE
            /\ lastCall' = Call("submit", NoPair, 0, <<>>, FALSE, FALSE)
            /\ UNCHANGED <<storage, insertion>>
    /\ UNCHANGED <<page, counterVars, pc, savedCart, requests, eventsData,
                   cartItems, total, isLoading, error, schemaVars, asideVars>>

\* "Try Again" of the error view: window.location.reload()
TryAgain ==
    /\ page = CheckoutRoute
    /\ ~isLoading
    /\ error # NoError
    /\ lastCall' = NoCall
    /\ StartFetchCartData
    /\ UNCHANGED <<storage, page, counterVars, insertion, schemaVars,
                   asideVars>>

\* The user goes to the page of event e (from the checkout, or from another
\* event): what was mounted unmounts; a response still in flight is dropped.
\* A submission in flight settles before the browser handles another event.
OpenEvent(e) ==
    /\ page.name # "crashed"
    /\ ~isSubmitting
    /\ page # EventPage(e)
    /\ page' = EventPage(e)
    /\ mounted' = [p \in Pairs |-> FALSE]
    /\ count' = [p \in Pairs |-> 0]
    /\ availableTickets' = [p \in Pairs |-> 0]
    /\ lastCall' = NoCall
    /\ pc' = "unmounted"
    /\ savedCart' = <<>>
    /\ requests' = <<>>
    /\ eventsData' = <<>>
    /\ cartItems' = <<>>
    /\ total' = 0
    /\ isLoading' = TRUE
    /\ error' = NoError
    /\ phoneInvalid' = FALSE
    /\ UNCHANGED <<storage, insertion, isSubmitting, validity, schemaVars,
                   asideVars>>

\* The user reloads the page React tore down.
Reload ==
    /\ page.name = "crashed"
    /\ page' = EventPage(page.id)
    /\ lastCall' = NoCall
    /\ UNCHANGED <<storage, counterVars, insertion, checkoutVars,
                   schemaVars, asideVars>>

(***************************************************************************)
(* The environment.                                                        *)
(***************************************************************************)
\* Something else writes text that is not JSON under "ticketCart".
Corrupt ==
    /\ page.name # "checkout"
    /\ storage.kind # "malformed"
    /\ storage' = Malformed
    /\ insertion' = NoInsertion
    /\ UNCHANGED <<page, counterVars, lastCall, checkoutVars, schemaVars,
                   asideVars>>

\* Phone numbers a user may type.
Phones ==
    {<<"+", "2", "5", "4", "7", "1", "2", "3", "4", "5", "6", "7", "8">>,
     <<"2", "5", "4", "7", "1", "2", "3", "4", "5", "6", "7", "8">>,
     <<"+", "0", "7", "1", "2", "3", "4", "5", "6", "7", "8">>,
     <<"+", "1">>,
     <<>>}

Next ==
    \/ \E p \in Pairs, ceiling \in 0..MaxStock : Mount(p, ceiling)
    \/ \E p \in Pairs : Unmount(p)
    \/ \E p \in Pairs, q \in Pairs, ceiling \in 0..MaxStock :
          Rebind(p, q, ceiling)
    \/ \E p \in Pairs : handleIncrease(p)
    \/ \E p \in Pairs : handleDecrease(p)
    \/ OpenCheckout
    \/ \E present \in SUBSET EventIds, opt \in [TicketIds -> TicketOptions],
          repriced \in BOOLEAN : FetchResolve(present, opt, repriced)
    \/ FetchNotOk
    \/ FetchRejected
    \/ \E phone \in Phones : onSubmit(phone)
    \/ SubmitSettles
    \/ TryAgain
    \/ \E e \in EventIds : OpenEvent(e)
    \/ Reload
    \/ Corrupt

Spec == Init /\ [][Next]_vars

TypeOK ==
    /\ storage.kind \in {"null", "malformed", "json"}
    /\ page \in {EventPage(e) : e \in EventIds} \cup {CheckoutRoute}
                \cup {Crashed(e) : e \in EventIds}
    /\ mounted \in [Pairs -> BOOLEAN]
    /\ count \in [Pairs -> 0..MaxStock]
    /\ availableTickets \in [Pairs -> 0..MaxStock]
    /\ pc \in {"unmounted", "empty", "fetching", "ok", "parse_error",
               "http_error", "network_error"}
    /\ isLoading \in BOOLEAN
    /\ error \in {NoError, LoadError}
    /\ total \in Nat
    /\ Len(requests) <= 1
    /\ isSubmitting \in BOOLEAN
    /\ validity \in {"none", "valid", "invalid"}
    /\ isSubmitting <=> validity # "none"
    /\ phoneText = <<>>
    /\ verdict = "unchecked"

(***************************************************************************)
(* The checkout with a fetch that settles: a pending fetch() promise ends  *)
(* resolved or rejected, and the continuation of fetchCartData then runs.  *)
(***************************************************************************)
FetchSettles ==
    \/ \E present \in SUBSET EventIds, opt \in [TicketIds -> TicketOptions],
          repriced \in BOOLEAN : FetchResolve(present, opt, repriced)
    \/ FetchNotOk
    \/ FetchRejected

\* Carts are filled on the event pages, the checkout is loaded and loaded
\* again; nothing is submitted.
NextSettling ==
    \/ \E p \in Pairs : Mount(p, MaxStock)
    \/ \E p \in Pairs : handleIncrease(p)
    \/ \E p \in Pairs : handleDecrease(p)
    \/ OpenCheckout
    \/ FetchSettles
    \/ TryAgain
    \/ \E e \in EventIds : OpenEvent(e)
    \/ Reload
    \/ Corrupt

SpecSettling == Init /\ [][NextSettling]_vars /\ WF_vars(FetchSettles)

(***************************************************************************)
(* The schema alone: the phone regex applied to strings of every shape.    *)
(***************************************************************************)
MaxPhoneDigits == 16

Run(d, n) == [i \in 1..n |-> d]

\* Strings a phone field may hold: an optional sign, an optional first
\* digit, a run of up to MaxPhoneDigits equal digits, an optional tail that
\* is not a number.
PhoneInputs ==
    Phones \cup
    {pre \o first \o Run(fill, n) \o tail :
        pre \in {<<>>, <<"+">>, <<"+", "+">>},
        first \in {<<>>, <<"0">>, <<"1">>, <<"9">>},
        fill \in {"0", "8"},
        n \in 0..MaxPhoneDigits,
        tail \in {<<>>, <<"x">>, <<" ">>, <<"-", "1">>}}

InitPhone ==
    /\ AppInit
    /\ phoneText \in PhoneInputs
    /\ verdict = "unchecked"

\* z.string().regex(...) is applied to the string.
Validate ==
    /\ verdict = "unchecked"
    /\ verdict' = IF PhoneValid(phoneText) THEN "accepted" ELSE "rejected"
    /\ UNCHANGED <<storage, page, counterVars, lastCall, insertion,
                   checkoutVars, phoneText, asideVars>>

NextPhone == Validate

SpecPhone == InitPhone /\ [][NextPhone]_vars

(***************************************************************************)
(* updateCart alone: the event page, where updateCart is also called with  *)
(* quantities no handler passes.                                           *)
(***************************************************************************)
Quantities == (0 - 1)..MaxStock

\* A call of updateCart by the TicketCounter of a pair, with its quantity.
SetCall(p, quantity) ==
    [op |-> "set", pair |-> p, setItem |-> 1, onCountChange |-> <<>>,
     alert |-> FALSE, threw |-> FALSE, quantity |-> quantity]

\* updateCart(ticketId, quantity), called by the TicketCounter of pair p.
CartStoreSet(p, quantity) ==
    /\ Hosts(p)
    /\ mounted[p]
    /\ ~ParseThrows(CartText(storage))
    /\ storage' = updateCart(storage, p[1], p[2], quantity)
    /\ insertion' = InsertionAfter(insertion, storage, p[1], p[2], quantity)
    /\ lastCall' = SetCall(p, quantity)
    /\ UNCHANGED <<page, counterVars, checkoutVars, schemaVars, asideVars>>

\* The page of event 2 is shown: it lists two ticket types.
InitSet ==
    /\ Init
    /\ page = EventPage(2)

NextSet ==
    \/ \E p \in Pairs : Mount(p, MaxStock)
    \/ \E p \in Pairs : Unmount(p)
    \/ \E p \in Pairs : handleIncrease(p)
    \/ \E p \in Pairs : handleDecrease(p)
    \/ \E p \in Pairs, quantity \in Quantities : CartStoreSet(p, quantity)

SpecSet == InitSet /\ [][NextSet]_vars

(***************************************************************************)
(* The selectors alone: TicketCounters of several events side by side, and *)
(* nothing but their own events.                                           *)
(***************************************************************************)
InitSelectors ==
    /\ storage \in {StorageNull, Malformed}
    /\ page = Listing
    /\ NoCounters
    /\ lastCall = NoCall
    /\ insertion = NoInsertion
    /\ CheckoutUnmounted
    /\ AsideIdle
    /\ phoneText = <<>>
    /\ verdict = "unchecked"

NextSelectors ==
    \/ \E p \in Pairs : Mount(p, MaxStock)
    \/ \E p \in Pairs : Unmount(p)
    \/ \E p \in Pairs : handleIncrease(p)
    \/ \E p \in Pairs : handleDecrease(p)

SpecSelectors == InitSelectors /\ [][NextSelectors]_vars

(***************************************************************************)
(* The Cart Store contract, as the claims state it.                        *)
(***************************************************************************)
\* get(eventId, ticketId): the persisted quantity, 0 if absent; unparsable
\* text counts as an empty cart.
CartStoreGet(raw, eventId, ticketId) ==
    IF ParseThrows(CartText(raw)) THEN 0
    ELSE LoadCount(raw, eventId, ticketId)

(***************************************************************************)
(* C1. For all sequences of increments and decrements on a Ticket Selector *)
(* bounded by the stock ceiling C, the displayed quantity stays within     *)
(* [0, C] and equals the value last written to the Cart Store for its      *)
(* (eventId, ticketId). Stated here for carts that parse, so that a        *)
(* violation does not rest on the parse failure of C3.                     *)
(***************************************************************************)
C1_DisplayedWithinCeilingAndPersisted ==
    \A p \in Pairs :
        (mounted[p] /\ ~ParseThrows(CartText(storage))) =>
            /\ 0 <= count[p]
            /\ count[p] <= availableTickets[p]
            /\ count[p] = CartStoreGet(storage, p[1], p[2])

(***************************************************************************)
(* C2. In every reachable state of the persisted cart no ticket entry has  *)
(* quantity 0 and no event entry has an empty ticket map: every stored     *)
(* quantity is a positive integer.                                         *)
(***************************************************************************)
C2_NoZeroNoEmptyEntries ==
    storage.kind = "json" =>
        \A i \in 1..Len(storage.json) :
            /\ Len(storage.json[i].val) > 0
            /\ \A j \in 1..Len(storage.json[i].val) :
                   /\ storage.json[i].val[j].val \in Nat
                   /\ storage.json[i].val[j].val > 0

\* A decrement has just removed the last ticket of an event while another
\* event stays in the cart.
C2_Witness ==
    /\ lastCall.op = "decrease"
    /\ lastCall.setItem = 1
    /\ lastCall.onCountChange = <<0>>
    /\ storage.kind = "json"
    /\ Len(storage.json) = 1
    /\ ~JsHas(storage.json, ToString(lastCall.pair[1]))

(***************************************************************************)
(* C3. When the text under "ticketCart" is malformed JSON, the read on     *)
(* mount and the read-modify-write of increment and decrement behave as if *)
(* the key were absent and never throw to the caller.                      *)
(***************************************************************************)
C3_SelectorNeverThrows ==
    lastCall.op \in {"mount", "increase", "decrease"} => ~lastCall.threw

(***************************************************************************)
(* C4. When the persisted cart is unparsable at checkout, the reconciler   *)
(* treats it as an empty cart: it ends with no line items, total 0 and no  *)
(* error state.                                                            *)
(***************************************************************************)
C4_UnparsableCartIsEmptyCart ==
    (page = CheckoutRoute /\ ParseThrows(CartText(storage))) =>
        /\ ~isLoading
        /\ cartItems = <<>>
        /\ total = 0
        /\ error = NoError

(***************************************************************************)
(* What the claims about the reconciler speak of.                          *)
(***************************************************************************)
\* The (eventId, ticketId, quantity) triples of a cart.
CartTriples(cart) ==
    UNION {{<<ParseInt(cart[i].key), ParseInt(cart[i].val[j].key),
              cart[i].val[j].val>> : j \in 1..Len(cart[i].val)} :
           i \in 1..Len(cart)}

\* The response lists ticket t inside event e.
Listed(body, e, t) ==
    \E k \in 1..Len(body) :
        /\ body[k].id = e
        /\ \E m \in 1..Len(body[k].tickets) : body[k].tickets[m].id = t

\* The triples that must become line items.
LiveTriples ==
    {tr \in CartTriples(savedCart) : Listed(eventsData, tr[1], tr[2])}

ItemTriples ==
    {<<cartItems[i].eventId, cartItems[i].id, cartItems[i].quantity>> :
        i \in 1..Len(cartItems)}

ItemPairs ==
    [i \in 1..Len(cartItems) |-> <<cartItems[i].eventId, cartItems[i].id>>]

RECURSIVE SumOfItems(_)
SumOfItems(items) ==
    IF items = <<>> THEN 0
    ELSE Head(items).price * Head(items).quantity + SumOfItems(Tail(items))

(***************************************************************************)
(* C5. A reconciliation whose fetch succeeds produces exactly one line     *)
(* item for each triple of the cart whose event is in the response and     *)
(* whose ticket is in that event's ticket array, none for any other        *)
(* triple, and ends without an error state.                                *)
(***************************************************************************)
C5_OneItemPerLiveTriple ==
    pc = "ok" =>
        /\ ItemTriples = LiveTriples
        /\ Len(cartItems) = Cardinality(LiveTriples)
        /\ error = NoError
        /\ ~isLoading

\* Three triples in the cart; one is dropped because its event is missing
\* from the response, one because its ticket is missing, one is emitted.
C5_Witness ==
    /\ pc = "ok"
    /\ Cardinality(CartTriples(savedCart)) = 3
    /\ Len(eventsData) = 1
    /\ eventsData[1].id = 2
    /\ Len(eventsData[1].tickets) = 1
    /\ Len(cartItems) = 1

(***************************************************************************)
(* C6. Every line item carries the price and availability of the fetched   *)
(* ticket and the quantity exactly as persisted (no clamping to the        *)
(* availability), and the total is the sum over the line items of          *)
(* price * quantity.                                                       *)
(***************************************************************************)
C6_FetchedPricePersistedQuantity ==
    pc = "ok" =>
        /\ \A i \in 1..Len(cartItems) :
              LET it == cartItems[i]
              IN  /\ \E k \in 1..Len(eventsData) :
                        /\ eventsData[k].id = it.eventId
                        /\ \E m \in 1..Len(eventsData[k].tickets) :
                              LET tk == eventsData[k].tickets[m]
                              IN  /\ tk.id = it.id
                                  /\ tk.price = it.price
                                  /\ tk.tickets_available = it.ticketsAvailable
                  /\ <<it.eventId, it.id, it.quantity>>
                        \in CartTriples(savedCart)
                  /\ storage.kind = "json" =>
                        it.quantity = CartStoreGet(storage, it.eventId, it.id)
        /\ total = SumOfItems(cartItems)

\* Two items are emitted, one with more tickets than are available, and a
\* third entry of the cart is skipped.
C6_Witness ==
    /\ pc = "ok"
    /\ Len(cartItems) = 2
    /\ Cardinality(CartTriples(savedCart)) = 3
    /\ \E i \in 1..Len(cartItems) :
          cartItems[i].quantity > cartItems[i].ticketsAvailable
    /\ total > 0

(***************************************************************************)
(* C7. Every line item the reconciler produces has quantity <= available   *)
(* stock as of the fetch that produced it.                                 *)
(***************************************************************************)
C7_QuantityWithinStock ==
    \A i \in 1..Len(cartItems) :
        cartItems[i].quantity <= cartItems[i].ticketsAvailable

(***************************************************************************)
(* C8. As claimed: line items are emitted in the cart's insertion order,   *)
(* events in the order their keys were first inserted and, within an       *)
(* event, tickets in the order their keys were first inserted.             *)
(***************************************************************************)
RECURSIVE TicketsByEvent(_)
TicketsByEvent(events) ==
    IF events = <<>> THEN <<>>
    ELSE SelectSeq(insertion.tickets, LAMBDA pr : pr[1] = Head(events))
            \o TicketsByEvent(Tail(events))

Emitted(pr) == \E i \in 1..Len(cartItems) : ItemPairs[i] = pr

C8_ItemsInInsertionOrder ==
    (pc = "ok" /\ storage.kind = "json") =>
        ItemPairs = SelectSeq(TicketsByEvent(insertion.events), Emitted)

(***************************************************************************)
(* C8, amended. Line items are emitted in the enumeration order of the     *)
(* cart's keys, which for integer ids is ascending numeric order: events   *)
(* by ascending event id and, within an event, tickets by ascending ticket *)
(* id, whatever the order in which the keys were inserted.                 *)
(***************************************************************************)
C8_ItemsInAscendingIdOrder ==
    pc = "ok" =>
        \A i \in 1..Len(cartItems), j \in 1..Len(cartItems) :
            i < j =>
                \/ ItemPairs[i][1] < ItemPairs[j][1]
                \/ /\ ItemPairs[i][1] = ItemPairs[j][1]
                   /\ ItemPairs[i][2] < ItemPairs[j][2]

\* All three tickets are emitted although event 10 was inserted before
\* event 2 and ticket 12 before ticket 3.
C8_Witness ==
    /\ pc = "ok"
    /\ storage.kind = "json"
    /\ Len(cartItems) = 3
    /\ insertion.events = <<10, 2>>
    /\ insertion.tickets = <<<<10, 5>>, <<2, 12>>, <<2, 3>>>>

(***************************************************************************)
(* C9. Reconciling an empty persisted cart (absent key or no event keys)   *)
(* yields no line items and total 0, leaves the loading state and issues   *)
(* no network call.                                                        *)
(***************************************************************************)
C9_EmptyCartNoFetch ==
    (page = CheckoutRoute /\ savedCart = <<>> /\ storage.kind # "malformed")
        => /\ cartItems = <<>>
           /\ total = 0
           /\ ~isLoading
           /\ error = NoError
           /\ requests = <<>>

\* The checkout opened on the text "{}", left by a decrement to zero.
C9_Witness ==
    /\ page = CheckoutRoute
    /\ storage = EmptyObjectText
    /\ ~isLoading
    /\ requests = <<>>

(***************************************************************************)
(* C10. For a non-empty persisted cart one reconciliation issues exactly   *)
(* one fetch, whose id list holds every event key of the cart exactly      *)
(* once, however many tickets each event holds.                            *)
(***************************************************************************)
C10_OneFetchEachEventOnce ==
    (page = CheckoutRoute /\ storage.kind = "json" /\ Len(storage.json) > 0)
        => /\ Len(requests) = 1
           /\ LET words == SplitIds(requests[1].ids, <<>>)
                  keys == JsKeys(JSONparse(storage))
              IN  /\ Len(words) = Len(keys)
                  /\ \A n \in 1..Len(keys) :
                        Cardinality({i \in 1..Len(words) :
                                        words[i] = keys[n]}) = 1

\* The response arrived for a cart of two events, one holding two tickets.
C10_Witness ==
    /\ pc = "ok"
    /\ storage.kind = "json"
    /\ Len(storage.json) = 2
    /\ \E i \in 1..Len(storage.json) : Len(storage.json[i].val) = 2
    /\ Len(requests) = 1

(***************************************************************************)
(* C11. When the fetch of fetchCartData fails (the network fails, or the    *)
(* response is not a success) the checkout ends in its error state: the    *)
(* error is set, loading is over, there are no line items, and the step    *)
(* that fails leaves the persisted cart as it was. From the error state no *)
(* fetch is issued unless the user takes "Try Again": nothing else changes *)
(* the page while it is shown.                                             *)
(***************************************************************************)
FetchFailures == {"http_error", "network_error"}

C11_FetchFailureIsErrorStateNoRetry ==
    [][/\ pc' \in FetchFailures =>
              /\ error' = LoadError
              /\ ~isLoading'
              /\ cartItems' = <<>>
              /\ total' = 0
              /\ ~SummaryShown'
       /\ (pc = "fetching" /\ pc' \in FetchFailures) =>
              /\ storage' = storage
              /\ requests' = requests
       /\ pc \in FetchFailures =>
              \/ TryAgain
              \/ page' # CheckoutRoute
              \/ UNCHANGED <<pc, requests, storage, error, cartItems>>]_vars

C11_Witness ==
    /\ pc = "network_error"
    /\ error = LoadError
    /\ Len(requests) = 1
    /\ storage.kind = "json"
    /\ Len(JsKeys(storage.json)) = 2

(***************************************************************************)
(* C12. After a submission that placed the order nothing is left under     *)
(* "ticketCart": the whole cart is removed, so the quantity a TicketCounter *)
(* would load is 0 for every pair, and a fetchCartData that starts now     *)
(* parses an object with no event keys and takes the empty-cart return.    *)
(***************************************************************************)
C12_SubmittedCartIsCleared ==
    (lastCall.op = "submit" /\ lastCall.alert) =>
        /\ storage = StorageNull
        /\ ~ParseThrows(CartText(storage))
        /\ \A p \in Pairs : LoadCount(storage, p[1], p[2]) = 0
        /\ IsEmptyCart(JsKeys(JSONparse(CartText(storage))))

C12_Witness ==
    /\ lastCall.op = "submit"
    /\ lastCall.alert
    /\ Len(cartItems) = 3
    /\ Len(JsKeys(savedCart)) = 2
    /\ storage = StorageNull

(***************************************************************************)
(* The phone format as the claims word it: a leading "+", then a digit 1   *)
(* to 9, then 1 to 14 further digits, and nothing else.                    *)
(***************************************************************************)
DecimalDigits == {"0", "1", "2", "3", "4", "5", "6", "7", "8", "9"}

InternationalFormat(phone) ==
    \E further \in 1..14 :
        /\ Len(phone) = 2 + further
        /\ phone[1] = "+"
        /\ phone[2] \in DecimalDigits \ {"0"}
        /\ \A i \in 1..further : phone[2 + i] \in DecimalDigits

(***************************************************************************)
(* C13. A submission whose phone is not in the international format is     *)
(* found invalid, and when it settles it does nothing but set the error of *)
(* the phone field: the order callback does not run (no alert), no request *)
(* is issued, and the persisted cart, the line items and the rest of the   *)
(* page stay as they were.                                                 *)
(***************************************************************************)
BadPhones == {phone \in Phones : ~InternationalFormat(phone)}

C13_InvalidPhoneOnlyFieldError ==
    [][/\ (/\ isSubmitting'
           /\ ~isSubmitting
           /\ \E phone \in BadPhones : onSubmit(phone)) =>
              /\ validity' = "invalid"
              /\ UNCHANGED <<storage, requests, lastCall, cartItems>>
       /\ (isSubmitting /\ validity = "invalid" /\ ~isSubmitting') =>
              /\ phoneInvalid'
              /\ lastCall'.op = "submit"
              /\ ~lastCall'.alert
              /\ lastCall'.setItem = 0
              /\ UNCHANGED <<storage, insertion, requests, page, counterVars,
                             pc, savedCart, eventsData, cartItems, total,
                             isLoading, error>>]_vars

C13_Witness ==
    /\ lastCall.op = "submit"
    /\ ~lastCall.alert
    /\ phoneInvalid
    /\ ~isSubmitting
    /\ storage.kind = "json"
    /\ Len(cartItems) = 3
    /\ Len(requests) = 1

(***************************************************************************)
(* C14. While the checkout has no line items no submission starts or       *)
(* settles: no step places an order or changes the persisted cart. While a *)
(* submission is in flight no further submission is accepted: the only     *)
(* thing that happens to the form is that the one in flight settles.       *)
(***************************************************************************)
C14_NoSubmitWhenEmptyOrInFlight ==
    [][/\ (page = CheckoutRoute /\ Len(cartItems) = 0) =>
              /\ ~isSubmitting'
              /\ lastCall'.op # "submit"
              /\ ~lastCall'.alert
              /\ storage' = storage
       /\ isSubmitting =>
              /\ \A phone \in Phones : ~onSubmit(phone)
              /\ isSubmitting' => validity' = validity
              /\ ~isSubmitting' => SubmitSettles]_vars

C14_Witness ==
    /\ isSubmitting
    /\ validity = "valid"
    /\ Len(cartItems) = 3
    /\ storage.kind = "json"

(***************************************************************************)
(* C15. The schema accepts a string exactly when it is in the              *)
(* international format: "+", a digit 1 to 9, then 1 to 14 further digits. *)
(* It accepts +254712345678 and rejects 254712345678 (no "+") and          *)
(* +0712345678 (0 after the "+").                                          *)
(***************************************************************************)
C15_AcceptsExactlyInternationalFormat ==
    verdict # "unchecked" =>
        /\ verdict = "accepted" <=> InternationalFormat(phoneText)
        /\ phoneText = <<"+", "2", "5", "4", "7", "1", "2", "3", "4", "5",
                         "6", "7", "8">> => verdict = "accepted"
        /\ phoneText = <<"2", "5", "4", "7", "1", "2", "3", "4", "5", "6",
                         "7", "8">> => verdict = "rejected"
        /\ phoneText = <<"+", "0", "7", "1", "2", "3", "4", "5", "6", "7",
                         "8">> => verdict = "rejected"

C15_Witness ==
    /\ verdict = "accepted"
    /\ Len(phoneText) = 16
    /\ phoneText[2] = "9"

(***************************************************************************)
(* Whether the cart has an entry for the event, and one for the pair; the  *)
(* quantity stored for a pair that has one.                                *)
(***************************************************************************)
HasEventEntry(raw, eventId) ==
    JsHas(JSONparse(CartText(raw)), ToString(eventId))

HasEntry(raw, eventId, ticketId) ==
    /\ HasEventEntry(raw, eventId)
    /\ JsHas(JsGet(JSONparse(CartText(raw)), ToString(eventId)),
             ToString(ticketId))

StoredQuantity(raw, eventId, ticketId) ==
    JsGet(JsGet(JSONparse(CartText(raw)), ToString(eventId)),
          ToString(ticketId))

\* The entries of every pair but p are what they were.
OthersUntouched(p) ==
    \A o \in Pairs \ {p} :
        /\ HasEntry(storage', o[1], o[2]) <=> HasEntry(storage, o[1], o[2])
        /\ HasEntry(storage, o[1], o[2]) =>
               StoredQuantity(storage', o[1], o[2])
                   = StoredQuantity(storage, o[1], o[2])

\* The entry of pair p is gone, and so is the entry of its event unless
\* another ticket of the event has one.
EntryRemoved(p) ==
    /\ ~HasEntry(storage', p[1], p[2])
    /\ HasEventEntry(storage', p[1]) <=>
           \E o \in Pairs \ {p} :
               o[1] = p[1] /\ HasEntry(storage', o[1], o[2])

EntryStored(p, quantity) ==
    /\ HasEntry(storage', p[1], p[2])
    /\ StoredQuantity(storage', p[1], p[2]) = quantity

\* A handler of the selector wrote the cart: it passed no negative quantity
\* and what is stored for its pair is a positive quantity or nothing.
SelectorWriteIsPositive ==
    (lastCall'.op \in {"increase", "decrease"} /\ lastCall'.setItem = 1) =>
        LET p == lastCall'.pair
        IN  /\ lastCall'.onCountChange[1] >= 0
            /\ HasEntry(storage', p[1], p[2]) =>
                   StoredQuantity(storage', p[1], p[2]) > 0

C17_ZeroPrunesTicketThenEvent ==
    [][\A p \in Pairs :
           (/\ count[p] = 1
            /\ lastCall'.op = "decrease"
            /\ lastCall'.setItem = 1
            /\ handleDecrease(p)) =>
               /\ storage'.kind = "json"
               /\ EntryRemoved(p)
               /\ OthersUntouched(p)]_vars

C17_Witness ==
    /\ lastCall.op = "decrease"
    /\ lastCall.pair = <<2, 3>>
    /\ lastCall.onCountChange = <<0>>
    /\ storage.kind = "json"
    /\ ~HasEntry(storage, 2, 3)
    /\ HasEntry(storage, 2, 12)
    /\ StoredQuantity(storage, 2, 12) = 2

\* The quantity persisted for a pair: that of its entry, 0 without one.
PersistedQuantity(raw, p) ==
    IF HasEntry(raw, p[1], p[2]) THEN StoredQuantity(raw, p[1], p[2]) ELSE 0

\* A handler that did nothing: the display and the cart are as they were,
\* nothing was written and nothing was notified.
HandlerNoOp ==
    /\ count' = count
    /\ storage' = storage
    /\ lastCall'.setItem = 0
    /\ lastCall'.onCountChange = <<>>

\* A handler that brought the quantity of pair p to n: n is displayed, n is
\* what the cart now holds for p, and n was notified once.
HandlerSets(p, n) ==
    /\ count'[p] = n
    /\ lastCall'.setItem = 1
    /\ storage'.kind = "json"
    /\ PersistedQuantity(storage', p) = n
    /\ lastCall'.onCountChange = <<n>>

(***************************************************************************)
(* C18. An increment is a no-op (no display change, no write, no           *)
(* notification) when the quantity equals the stock ceiling; otherwise the *)
(* quantity becomes quantity + 1, which is persisted for the pair and      *)
(* notified exactly once. Stated here for carts that parse, so that a      *)
(* violation does not rest on the parse failure of C3.                     *)
(***************************************************************************)
C18_IncrementNoOpOnlyAtCeiling ==
    [][\A p \in Pairs :
           (handleIncrease(p) /\ ~ParseThrows(CartText(storage))) =>
               IF count[p] = availableTickets[p]
               THEN HandlerNoOp
               ELSE HandlerSets(p, count[p] + 1)]_vars

(***************************************************************************)
(* C19. A decrement is a no-op (no display change, no write, no            *)
(* notification) when the quantity is 0; otherwise the quantity becomes    *)
(* quantity - 1, which is persisted for the pair and notified exactly      *)
(* once.                                                                   *)
(***************************************************************************)
C19_DecrementNoOpOnlyAtZero ==
    [][\A p \in Pairs :
           handleDecrease(p) =>
               IF count[p] = 0
               THEN HandlerNoOp
               ELSE HandlerSets(p, count[p] - 1)]_vars

(***************************************************************************)
(* C20. When a TicketCounter mounts, and when its ticket identity changes, *)
(* it ends up displaying the quantity persisted for its pair: that of the  *)
(* pair's entry, 0 when the event or the ticket has no entry (unparsable   *)
(* text counting as no entry, as get has it).                              *)
(***************************************************************************)
C20_MountDisplaysPersisted ==
    [][\A p \in Pairs :
           (\E ceiling \in 0..MaxStock :
               \/ Mount(p, ceiling)
               \/ \E o \in Pairs : Rebind(o, p, ceiling)) =>
               /\ mounted'[p]
               /\ count'[p] = IF ParseThrows(CartText(storage)) THEN 0
                              ELSE PersistedQuantity(storage, p)]_vars

(***************************************************************************)
(* C21. Whatever the interleaving of increments and decrements on the      *)
(* TicketCounters of distinct pairs, of one event or of several, no update *)
(* is lost: after every event the cart parses and the quantity it holds    *)
(* for the pair of each mounted TicketCounter (0 without an entry) is the  *)
(* quantity that TicketCounter displays.                                   *)
(***************************************************************************)
C21_NoLostUpdate ==
    \A p \in Pairs :
        mounted[p] =>
            /\ ~ParseThrows(CartText(storage))
            /\ count[p] = PersistedQuantity(storage, p)

C21_Witness ==
    /\ \A p \in Pairs : mounted[p]
    /\ count[<<2, 3>>] = 1
    /\ count[<<2, 12>>] = 2
    /\ count[<<10, 5>>] = 1
    /\ lastCall.op = "decrease"
    /\ lastCall.pair = <<10, 5>>
    /\ lastCall.setItem = 1

(***************************************************************************)
(* C23. fetchCartData only reads the cart. No step of it (its start on a   *)
(* page load, the empty-cart return, the fetch resolving, the fetch        *)
(* failing) changes what is under "ticketCart"; when it ends with line     *)
(* items the stored cart is still the cart it parsed, the entries it       *)
(* skipped included.                                                       *)
(***************************************************************************)
C23_ReconcilerOnlyReads ==
    [][/\ (pc' # pc /\ pc' # "unmounted") => storage' = storage
       /\ (page' = CheckoutRoute /\ pc' # pc) => storage' = storage
       /\ (pc = "fetching" /\ pc' = "ok") =>
              /\ storage'.kind = "json"
              /\ storage'.json = savedCart']_vars

C23_Witness ==
    /\ pc = "ok"
    /\ lastCall.op # "submit"
    /\ Len(cartItems) = 1
    /\ Cardinality(CartTriples(savedCart)) = 3
    /\ storage.kind = "json"
    /\ storage.json = savedCart

(***************************************************************************)
(* C24. An increment or decrement of the TicketCounter of a pair changes,  *)
(* in the stored cart, at most the entry of that pair and the presence of  *)
(* its event: the entry of every other ticket, of the same event or of     *)
(* another, is there after the step exactly when it was there before, with *)
(* the same quantity.                                                      *)
(***************************************************************************)
C24_HandlersTouchOnlyOwnEntry ==
    [][\A p \in Pairs :
           (/\ lastCall'.op \in {"increase", "decrease"}
            /\ lastCall'.pair = p
            /\ (handleIncrease(p) \/ handleDecrease(p))) =>
               \/ storage' = storage
               \/ /\ ~ParseThrows(CartText(storage))
                  /\ storage'.kind = "json"
                  /\ OthersUntouched(p)]_vars

C24_Witness ==
    /\ lastCall.op = "increase"
    /\ lastCall.pair = <<2, 3>>
    /\ lastCall.setItem = 1
    /\ HasEntry(storage, 2, 12)
    /\ StoredQuantity(storage, 2, 12) = 2
    /\ HasEntry(storage, 10, 5)
    /\ StoredQuantity(storage, 10, 5) = 1
    /\ count[<<2, 3>>] = 1

(***************************************************************************)
(* C25. A submission that places the order changes the stored cart and     *)
(* nothing of the page: the line items, the total, the loading flag and    *)
(* the error are as before, so the summary and its form are still shown,   *)
(* with the same items, and the form takes a further submission although   *)
(* no new fetch was issued.                                                *)
(***************************************************************************)
C25_SubmitLeavesPageAsItWas ==
    [][(isSubmitting /\ validity = "valid" /\ ~isSubmitting') =>
           /\ storage' = StorageNull
           /\ UNCHANGED <<cartItems, total, isLoading, error, pc, requests,
                          savedCart, eventsData, page>>
           /\ Len(cartItems') > 0
           /\ SummaryShown'
           /\ ~isSubmitting']_vars

C25_Witness ==
    /\ lastCall.op = "submit"
    /\ lastCall.alert
    /\ storage = StorageNull
    /\ isSubmitting
    /\ validity = "valid"
    /\ Len(cartItems) = 2
    /\ Len(requests) = 1

(***************************************************************************)
(* C26. A checkout page that is loading leaves the loading state once its  *)
(* fetch has settled (or the user has left the page). A checkout page that *)
(* is not loading is in exactly one of three states: error (the error is   *)
(* set, no line items), empty (no error, no line items), summary (no       *)
(* error, line items); an error and line items never hold together.        *)
(***************************************************************************)
ErrorState == error # NoError /\ Len(cartItems) = 0

EmptyState == error = NoError /\ Len(cartItems) = 0

SummaryState == error = NoError /\ Len(cartItems) > 0

OneOfThreeStates ==
    /\ ~(error # NoError /\ Len(cartItems) > 0)
    /\ (page = CheckoutRoute /\ ~isLoading) =>
           /\ ErrorState \/ EmptyState \/ SummaryState
           /\ ~(ErrorState /\ EmptyState)
           /\ ~(ErrorState /\ SummaryState)
           /\ ~(EmptyState /\ SummaryState)
           /\ ErrorState <=> pc \in {"parse_error", "http_error",
                                     "network_error"}
           /\ SummaryState <=> SummaryShown
           /\ pc # "fetching"

C26_LoadingEndsInOneOfThreeStates ==
    /\ []OneOfThreeStates
    /\ (page = CheckoutRoute /\ isLoading)
           ~> (~isLoading \/ page # CheckoutRoute)

C26_Witness ==
    /\ page = CheckoutRoute
    /\ ~isLoading
    /\ pc = "ok"
    /\ EmptyState
    /\ Len(JsKeys(savedCart)) = 2

(***************************************************************************)
(* The session: AuthProvider and the LoginForm.                            *)
(***************************************************************************)
\* The event pages and the checkout, with nothing happening on them.
CartIdle ==
    /\ storage = StorageNull
    /\ page = Listing
    /\ NoCounters
    /\ lastCall = NoCall
    /\ insertion = NoInsertion
    /\ CheckoutUnmounted
    /\ phoneText = <<>>
    /\ verdict = "unchecked"

\* localStorage.getItem("user") ?? ""
UserText(item) == IF item.kind = "null" THEN EmptyText ELSE item

\* JSON.parse(text) throws a SyntaxError: of the empty string too.
UserParseThrows(text) == text.kind \in {"empty", "malformed"}

\* JSON.parse(text), of text it accepts.
UserParse(text) == text.value

\* JSON.stringify(data.user)
UserStringify(user) == TextOf(user)

\* The value AuthProvider hands to its context, from what localStorage
\* holds: logged is the console.log of the catch block, threw an error
\* leaving the component.
AuthValueTokenOnly(uItem, tItem) ==
    LET text == UserText(uItem)
        caught == UserParseThrows(text)
        user == IF caught THEN Undefined ELSE UserParse(text)
    IN  [rendered |-> TRUE, user |-> user, access_token |-> tItem,
         isLoggedIn |-> TokenTruthy(tItem),
         logged |-> caught, threw |-> FALSE]

AuthValue(uItem, tItem) ==
    LET text == UserText(uItem)
        caught == UserParseThrows(text)
        user == IF caught THEN Undefined ELSE UserParse(text)
    IN  [rendered |-> TRUE, user |-> user, access_token |-> tItem,
         isLoggedIn |-> UserTruthy(user) /\ TokenTruthy(tItem),
         logged |-> caught, threw |-> FALSE]

\* AuthProvider renders: when the application loads.
AuthProvider ==
    /\ auth' = AuthValue(userItem, accessTokenItem)
    /\ UNCHANGED <<userItem, accessTokenItem, location, loginSubmitting,
                   loginValidity, loginsInFlight, loginEffects>>
    /\ UNCHANGED <<cartVars, categoriesVars, sheetVars>>

\* Strings as sequences of characters: the e-mail addresses and passwords
\* typed into the form.
Emails == {<<>>, <<"m">>, <<"m", "@", "e">>, <<"m", "@", "e", ".", "c">>,
           <<"@", "e", ".", "c">>}

Passwords == {<<>>, <<"p">>}

\* z.email(): one "@" after a local part, then a domain with a dot inside.
IsEmail(s) ==
    \E at \in 2..Len(s) :
        /\ s[at] = "@"
        /\ \A i \in 1..Len(s) : s[i] = "@" => i = at
        /\ \E dot \in (at + 2)..(Len(s) - 1) : s[dot] = "."

\* The resolver of the schema accepts the values.
LoginValid(values) == IsEmail(values.email) /\ Len(values.password) >= 1

\* The form is submitted (the Login button is pressed): handleSubmit sets
\* isSubmitting and runs the resolver.
onLoginSubmit(values) ==
    /\ location = "/login"
    /\ ~loginSubmitting
    /\ loginsInFlight < MaxPending
    /\ loginSubmitting' = TRUE
    /\ loginValidity' = IF LoginValid(values) THEN "valid" ELSE "invalid"
    /\ UNCHANGED <<userItem, accessTokenItem, auth, location, loginsInFlight,
                   loginEffects>>
    /\ UNCHANGED <<cartVars, categoriesVars, sheetVars>>

\* handleSubmit goes on: with valid values it calls the handler, which
\* calls fetch and returns without awaiting it, and isSubmitting is
\* cleared.
LoginHandled ==
    /\ loginSubmitting
    /\ loginsInFlight' =
           IF loginValidity = "valid" THEN loginsInFlight + 1
           ELSE loginsInFlight
    /\ loginSubmitting' = FALSE
    /\ loginValidity' = "none"
    /\ UNCHANGED <<userItem, accessTokenItem, auth, location, loginEffects>>
    /\ UNCHANGED <<cartVars, categoriesVars, sheetVars>>

\* What becomes of a POST /login: a success response for a user of a role,
\* a response that is not ok, one whose body is not JSON, or no response.
LoginFailures == {"not ok", "not json", "rejected"}

LoginOutcomes == {"ok user", "ok admin"} \cup LoginFailures

RoleOf(outcome) == IF outcome = "ok user" THEN "user" ELSE "admin"

\* What the callbacks of a request did.
LoginSucceeded(role) ==
    [response |-> "ok",
     calls |-> <<"toast.success", "setItem access_token", "setItem user",
                 IF role = "user" THEN "navigate /"
                 ELSE "navigate /dashboard">>]

LoginFailed == [response |-> "failed", calls |-> <<"toast.error">>]

\* A login request settles and the callbacks chained to it run.
LoginSettlesAlwaysNavigates(outcome) ==
    /\ loginsInFlight > 0
    /\ loginsInFlight' = loginsInFlight - 1
    /\ IF outcome \in LoginFailures
       THEN /\ loginEffects' = LoginFailed
            /\ location' = "/dashboard"
            /\ UNCHANGED <<userItem, accessTokenItem>>
       ELSE /\ accessTokenItem' = TokenFor(RoleOf(outcome))
            /\ userItem' = UserStringify(UserObject(RoleOf(outcome)))
            /\ location' =
                   IF RoleOf(outcome) = "user" THEN "/" ELSE "/dashboard"
            /\ loginEffects' = LoginSucceeded(RoleOf(outcome))
    /\ UNCHANGED <<auth, loginSubmitting, loginValidity>>
    /\ UNCHANGED <<cartVars, categoriesVars, sheetVars>>

LoginSettles(outcome) ==
    /\ loginsInFlight > 0
    /\ loginsInFlight' = loginsInFlight - 1
    /\ IF outcome \in LoginFailures
       THEN /\ loginEffects' = LoginFailed
            /\ UNCHANGED <<userItem, accessTokenItem, location>>
       ELSE /\ accessTokenItem' = TokenFor(RoleOf(outcome))
            /\ userItem' = UserStringify(UserObject(RoleOf(outcome)))
            /\ location' =
                   IF RoleOf(outcome) = "user" THEN "/" ELSE "/dashboard"
            /\ loginEffects' = LoginSucceeded(RoleOf(outcome))
    /\ UNCHANGED <<auth, loginSubmitting, loginValidity>>
    /\ UNCHANGED <<cartVars, categoriesVars, sheetVars>>

\* The login route is visited again: a new LoginForm.
VisitLogin ==
    /\ location # "/login"
    /\ ~loginSubmitting
    /\ location' = "/login"
    /\ UNCHANGED <<userItem, accessTokenItem, auth, loginSubmitting,
                   loginValidity, loginsInFlight, loginEffects>>
    /\ UNCHANGED <<cartVars, categoriesVars, sheetVars>>

LoginValues == [email : Emails, password : Passwords]

\* The browser may hold anything under "user" and "access_token" from
\* earlier visits.
InitSession ==
    /\ CartIdle
    /\ userItem \in UserItems
    /\ accessTokenItem \in TokenItems
    /\ LoginIdle
    /\ CategoriesIdle
    /\ SheetIdle

NextSession ==
    \/ AuthProvider
    \/ \E values \in LoginValues : onLoginSubmit(values)
    \/ LoginHandled
    \/ \E outcome \in LoginOutcomes : LoginSettles(outcome)
    \/ VisitLogin

SpecSession == InitSession /\ [][NextSession]_vars

\* a is called before b.
Before(calls, a, b) ==
    \E i, j \in 1..Len(calls) : i < j /\ calls[i] = a /\ calls[j] = b

\* C22: when nothing is stored under "user", or what is stored does not
\* deserialize, AuthProvider provides user undefined and isLoggedIn false
\* and no error leaves it; and it provides isLoggedIn true only when the
\* stored user deserialized to a user and an access token is stored.
C22_UnreadableUserIsAbsent ==
    [][AuthProvider =>
         /\ (userItem.kind = "null" \/ UserParseThrows(userItem))
                => /\ auth'.user = Undefined
                   /\ ~auth'.isLoggedIn
                   /\ ~auth'.threw
         /\ auth'.isLoggedIn
                => /\ userItem.kind = "json"
                   /\ userItem.value.type = "object"
                   /\ auth'.user = userItem.value
                   /\ accessTokenItem.kind = "text"
                   /\ accessTokenItem.text # ""]_vars

\* AuthProvider has rendered over a "user" that did not deserialize, with
\* an access token stored.
C22_Witness ==
    /\ auth.rendered
    /\ auth.logged
    /\ auth.user = Undefined
    /\ ~auth.isLoggedIn
    /\ TokenTruthy(auth.access_token)

\* C28: while a login request is in flight the form's isSubmitting is set
\* (the Login button is disabled), and no second request is in flight with
\* it.
C28_InFlightLoginDisablesSubmit ==
    /\ loginsInFlight > 0 => loginSubmitting
    /\ loginsInFlight <= 1

\* C29: a login that fails (a response that is not ok, a body that is not
\* JSON, no response) writes neither "access_token" nor "user" and does
\* not navigate; one that succeeds writes both and then navigates, to "/"
\* for the role "user" and to "/dashboard" otherwise.
C29_LoginWritesOnlyOnSuccess ==
    [][loginsInFlight' = loginsInFlight - 1 =>
         LET calls == loginEffects'.calls IN
         /\ loginEffects'.response \in {"ok", "failed"}
         /\ loginEffects'.response = "failed"
                => /\ userItem' = userItem
                   /\ accessTokenItem' = accessTokenItem
                   /\ location' = location
                   /\ \A i \in 1..Len(calls) : calls[i] = "toast.error"
         /\ loginEffects'.response = "ok"
                => /\ userItem'.kind = "json"
                   /\ userItem'.value.type = "object"
                   /\ accessTokenItem' = TokenFor(userItem'.value.role)
                   /\ location' = IF userItem'.value.role = "user"
                                  THEN "/" ELSE "/dashboard"
                   /\ Before(calls, "setItem access_token",
                             "navigate " \o location')
                   /\ Before(calls, "setItem user", "navigate " \o location')]_vars

\* An administrator's login has succeeded: the session is stored and the
\* dashboard is shown.
C29_Witness ==
    /\ loginEffects.response = "ok"
    /\ location = "/dashboard"
    /\ userItem = TextOf(UserObject("admin"))
    /\ accessTokenItem = TokenFor("admin")
    /\ loginsInFlight = 0

(***************************************************************************)
(* The categories page.                                                    *)
(***************************************************************************)
\* The calls of handleCategoryClick that await their fetch.
PendingEventFetches ==
    eventFetches[1] + eventFetches[2] + eventFetches[3] + eventFetches[4]

\* allEvents.filter((event) => event.category_id === category.id)
FilterByCategory(allEvents, categoryId) ==
    LET OfCategory(event) == event.category_id = categoryId
    IN  SelectSeq(allEvents, OfCategory)

\* fetchCategories ends: with the categories, or in its catch block.
FetchCategoriesSettles(ok) ==
    /\ isLoadingCategories
    /\ categories' = IF ok THEN CategoryIds ELSE categories
    /\ isLoadingCategories' = FALSE
    /\ UNCHANGED <<categoryEvents, selectedCategory, isLoadingEvents,
                   eventFetches>>
    /\ UNCHANGED <<cartVars, sessionVars, sheetVars>>

\* A card of the category grid is clicked: handleCategoryClick up to its
\* await. The grid is rendered when no category is selected.
handleCategoryClick(category) ==
    /\ ~isLoadingCategories
    /\ selectedCategory = 0
    /\ category \in categories
    /\ PendingEventFetches < MaxPending
    /\ selectedCategory' = category
    /\ isLoadingEvents' = TRUE
    /\ eventFetches' = [eventFetches EXCEPT ![category] = @ + 1]
    /\ UNCHANGED <<categories, categoryEvents, isLoadingCategories>>
    /\ UNCHANGED <<cartVars, sessionVars, sheetVars>>

\* The fetch of a call of handleCategoryClick settles and the call goes
\* on: with the events, or through its catch block; then finally.
EventsFetchSettles(category, ok) ==
    /\ eventFetches[category] > 0
    /\ eventFetches' = [eventFetches EXCEPT ![category] = @ - 1]
    /\ categoryEvents' =
           IF ok THEN FilterByCategory(AllEvents, category)
           ELSE categoryEvents
    /\ isLoadingEvents' = FALSE
    /\ UNCHANGED <<categories, selectedCategory, isLoadingCategories>>
    /\ UNCHANGED <<cartVars, sessionVars, sheetVars>>

\* "Back to Categories" or "Browse Other Categories" is clicked.
handleBackToCategories ==
    /\ selectedCategory # 0
    /\ selectedCategory' = 0
    /\ categoryEvents' = <<>>
    /\ UNCHANGED <<categories, isLoadingCategories, isLoadingEvents,
                   eventFetches>>
    /\ UNCHANGED <<cartVars, sessionVars, sheetVars>>

InitCategories == CartIdle /\ AsideIdle

NextCategories ==
    \/ \E ok \in BOOLEAN : FetchCategoriesSettles(ok)
    \/ \E category \in CategoryIds : handleCategoryClick(category)
    \/ \E category \in CategoryIds, ok \in BOOLEAN :
           EventsFetchSettles(category, ok)
    \/ handleBackToCategories

SpecCategories == InitCategories /\ [][NextCategories]_vars

\* C27: whenever a category is selected and its events are not loading,
\* every event of the displayed list belongs to the selected category; and
\* the list is empty whenever no category is selected.
C27_ListIsOfSelectedCategory ==
    /\ (selectedCategory # 0 /\ ~isLoadingEvents)
           => \A i \in 1..Len(categoryEvents) :
                  categoryEvents[i].category_id = selectedCategory
    /\ selectedCategory = 0 => categoryEvents = <<>>

(***************************************************************************)
(* The ticket sheet of the administrator's events page.                    *)
(***************************************************************************)
\* The values typed into the form.
FormValues ==
    {DefaultValues,
     [name |-> "VIP", price |-> 0, tickets_available |-> 5],
     [name |-> "VIP", price |-> 10, tickets_available |-> 5]}

\* ticketSchema accepts the values.
TicketValid(values) ==
    /\ values.name # ""
    /\ values.price >= 1
    /\ values.tickets_available >= 1

\* The POST /tickets requests not yet settled.
CreationsInFlight == creations.own + creations.stale

\* The TicketSheet is unmounted: its requests go on without it, and the
\* next one starts from useForm's initial state.
SheetUnmounts(own) ==
    /\ creations' = [own |-> 0, stale |-> creations.stale + own]
    /\ formValues' = DefaultValues
    /\ sheetSubmitting' = FALSE
    /\ sheetInvalid' = FALSE

\* "Add Ticket" of an event's row is clicked: the page renders a
\* TicketSheet for the event.
OpenSheet(eventId) ==
    /\ ticketSheetEventId = 0
    /\ ticketSheetEventId' = eventId
    /\ UNCHANGED <<formValues, sheetSubmitting, sheetInvalid, creations,
                   sheetEffects>>
    /\ UNCHANGED <<cartVars, sessionVars, categoriesVars>>

\* Cancel, Escape or a click outside: onOpenChange(false).
CloseSheet ==
    /\ ticketSheetEventId # 0
    /\ ticketSheetEventId' = 0
    /\ SheetUnmounts(creations.own)
    /\ UNCHANGED sheetEffects
    /\ UNCHANGED <<cartVars, sessionVars, categoriesVars>>

\* The fields are edited.
EditForm(values) ==
    /\ ticketSheetEventId # 0
    /\ formValues' = values
    /\ UNCHANGED <<ticketSheetEventId, sheetSubmitting, sheetInvalid,
                   creations, sheetEffects>>
    /\ UNCHANGED <<cartVars, sessionVars, categoriesVars>>

\* "Create Ticket" is pressed: handleSubmit validates and, with valid
\* values, calls onSubmit, which runs to its await fetch(...).
onSubmitSheet ==
    /\ ticketSheetEventId # 0
    /\ ~sheetSubmitting
    /\ CreationsInFlight < MaxPending
    /\ IF TicketValid(formValues)
       THEN /\ sheetSubmitting' = TRUE
            /\ sheetInvalid' = FALSE
            /\ creations' = [creations EXCEPT !.own = @ + 1]
       ELSE /\ sheetInvalid' = TRUE
            /\ UNCHANGED <<sheetSubmitting, creations>>
    /\ UNCHANGED <<ticketSheetEventId, formValues, sheetEffects>>
    /\ UNCHANGED <<cartVars, sessionVars, categoriesVars>>

\* What becomes of a POST /tickets: created, a response that is not ok,
\* or no response.
CreationFailures == {"not ok", "rejected"}

CreationOutcomes == {"ok"} \cup CreationFailures

\* What onSubmit did after its await.
Created ==
    [response |-> "ok",
     calls |-> <<"reset", "onOpenChange(false)", "onTicketCreated">>]

CreationFailed ==
    [response |-> "failed", calls |-> <<"console.error", "alert">>]

\* The request of the mounted TicketSheet settles and its onSubmit goes
\* on: reset, close and notify, or the catch block.
CreationSettles(outcome) ==
    /\ creations.own > 0
    /\ IF outcome = "ok"
       THEN /\ ticketSheetEventId' = 0
            /\ SheetUnmounts(creations.own - 1)
            /\ sheetEffects' = Created
       ELSE /\ creations' = [creations EXCEPT !.own = @ - 1]
            /\ sheetSubmitting' = FALSE
            /\ sheetEffects' = CreationFailed
            /\ UNCHANGED <<ticketSheetEventId, formValues, sheetInvalid>>
    /\ UNCHANGED <<cartVars, sessionVars, categoriesVars>>

\* The request of a TicketSheet since unmounted settles: its onSubmit
\* still goes on, and its onOpenChange(false) is the page's
\* setTicketSheetEventId(null).
StaleCreationSettles(outcome) ==
    /\ creations.stale > 0
    /\ IF outcome = "ok"
       THEN /\ ticketSheetEventId' = 0
            /\ creations' = [own |-> 0,
                             stale |-> creations.stale - 1 + creations.own]
            /\ formValues' = DefaultValues
            /\ sheetSubmitting' = FALSE
            /\ sheetInvalid' = FALSE
            /\ sheetEffects' = Created
       ELSE /\ creations' = [creations EXCEPT !.stale = @ - 1]
            /\ sheetEffects' = CreationFailed
            /\ UNCHANGED <<ticketSheetEventId, formValues, sheetSubmitting,
                           sheetInvalid>>
    /\ UNCHANGED <<cartVars, sessionVars, categoriesVars>>

InitSheet == CartIdle /\ AsideIdle

NextSheet ==
    \/ \E eventId \in EventIds : OpenSheet(eventId)
    \/ CloseSheet
    \/ \E values \in FormValues : EditForm(values)
    \/ onSubmitSheet
    \/ \E outcome \in CreationOutcomes : CreationSettles(outcome)
    \/ \E outcome \in CreationOutcomes : StaleCreationSettles(outcome)

SpecSheet == InitSheet /\ [][NextSheet]_vars

\* Every creation that settles does what the claim says of it: a failed
\* one leaves the sheet and the values as they are and does not call
\* onTicketCreated; a successful one resets the form, closes the sheet and
\* then calls onTicketCreated, once.
CreationSettlesAsClaimed ==
    [][CreationsInFlight' = CreationsInFlight - 1 =>
         /\ sheetEffects'.response \in {"ok", "failed"}
         /\ sheetEffects'.response = "failed"
                => /\ ticketSheetEventId' = ticketSheetEventId
                   /\ formValues' = formValues
                   /\ \A i \in 1..Len(sheetEffects'.calls) :
                          sheetEffects'.calls[i] # "onTicketCreated"
         /\ sheetEffects'.response = "ok"
                => /\ formValues' = DefaultValues
                   /\ ticketSheetEventId' = 0
                   /\ sheetEffects'.calls =
                          <<"reset", "onOpenChange(false)",
                            "onTicketCreated">>]_vars

\* While a creation is in flight, the submit control of the sheet shown is
\* disabled, and no second creation is in flight with it.
NoSecondCreation ==
    /\ (CreationsInFlight > 0 /\ ticketSheetEventId # 0) => sheetSubmitting
    /\ CreationsInFlight <= 1

\* C30: a failed creation leaves the sheet open with its values and does
\* not call onTicketCreated; a successful one resets the form, closes the
\* sheet and then calls onTicketCreated exactly once; and while a creation
\* is in flight the submit control is disabled, so that no second creation
\* request is issued.
C30_SheetSettlesAndSubmitsOnce ==
    CreationSettlesAsClaimed /\ []NoSecondCreation

=============================================================================
